---- MODULE Spec2Model ----
(***************************************************************************)
(* Model of the test-runner worker (src/unnamed/part_001) and of the part  *)
(* of the host page (src/src/app/page.tsx) that talks to it.               *)
(*                                                                         *)
(*   Spec        the worker's message handler, step by step, driven by the *)
(*               host's Run action, whose inputs are the code and the      *)
(*               cases the page holds when Run is pressed;                 *)
(*   SpecLive    Spec with the scheduling of the worker and the host;      *)
(*   SpecEq      the pure function deepEqual applied to pairs of values;   *)
(*   SpecAmbient the page and the worker together, for program texts that  *)
(*               use names they do not declare, with Generate;             *)
(*   SpecHost    the page alone: editing, hydration and persistence.       *)
(***************************************************************************)
EXTENDS Integers, Sequences, FiniteSets, TLC

VARIABLES
  a, b, eqPc, fwd, rev,     \* SpecEq: the two arguments of deepEqual, its results
  status,                   \* host: the page's status
  hostResults, hostLogs,    \* host: the page's results and logs
  hostError,                \* host: the page's error: <<>> for null, or <<text>>
  nreq,                     \* history: Run actions so far
  handled,                  \* history: <<the response>> the host's last step handled
  prompt, code, cases,      \* page: the prompt, the code and the case drafts
  apiKey,                   \* page: the API key field
  nextId,                   \* page: nextId.current
  isHydrated,               \* page: isHydrated
  timers,                   \* page: the payloads of the pending save timeouts
  storage,                  \* the adapter's stored item: <<>> or <<item>>
  gen,                      \* page: generation requests awaiting their result
  nedits,                   \* history: changes of the editable fields so far
  stored0,                  \* history: the stored item when the page mounted
  touched,                  \* history: a field changed since the page mounted
  saves,                    \* history: whether the adapter has saved
  inbox, outbox,            \* messages in flight: host -> worker, worker -> host
  outboxFor,                \* history: per message of outbox, the request the
                            \* worker was handling when it was posted
  wpc,                      \* worker: the handler's position
  cur,                      \* worker: event.data of the message being handled
  logs,                     \* worker: the buffer captureConsole made last
  logsFrom,                 \* history: per line of logs, the request that was
                            \* being handled when it was emitted
  solution,                 \* worker: what runUserCode returned
  results, idx,             \* worker: runTests' results and loop position
  caught,                   \* worker: the value the handler's catch received
  globalSolution,           \* worker: the global scope's binding of `solution`
  received, posted,         \* history: messages handled, responses posted
  uncaught,                 \* history: exceptions that escaped the handler
  \* history of the exchange in progress, from the worker taking the request
  \* to the host handling the response:
  emitted,                  \* the lines of the console calls made so far
  invoked,                  \* the functions called as entry point so far
  lastReq,                  \* <<the request>>, once its handler is over
  lastSolution,             \* what runUserCode had returned
  lastResults,              \* the results runTests had collected
  lastResp,                 \* <<the response posted>>, if any
  reached                   \* the names the text resolved outside itself

eqVars == <<a, b, eqPc, fwd, rev>>
hostVars == <<status, hostResults, hostLogs, hostError, nreq, handled>>
pageVars == <<prompt, code, cases, apiKey, nextId, isHydrated, timers, storage, gen>>
pageHist == <<nedits, stored0, touched, saves>>
chanVars == <<inbox, outbox, outboxFor>>
workerVars ==
  <<wpc, cur, logs, logsFrom, solution, results, idx, caught, globalSolution>>
countVars == <<received, posted, uncaught>>
exchVars ==
  <<emitted, invoked, lastReq, lastSolution, lastResults, lastResp, reached>>
histVars == <<countVars, exchVars, pageHist>>

----------------------------------------------------------------------------
(* JavaScript values.  Every value is a record of one shape:               *)
(*   t  the kind, p  the text of a primitive (or a function's identity),   *)
(*   k  the own enumerable keys of a mapping, in insertion order,          *)
(*   e  the elements of an array, or the values of k, position by position *)

Prim(t, p) == [t |-> t, p |-> p, k |-> <<>>, e |-> <<>>]
Null == Prim("null", "null")
Undefined == Prim("undefined", "")
Num(text) == Prim("number", text)
Str(text) == Prim("string", text)
Fn(id) == Prim("function", id)
Arr(es) == [t |-> "array", p |-> "", k |-> <<>>, e |-> es]
Obj(ks, vs) == [t |-> "object", p |-> "", k |-> ks, e |-> vs]
\* Object.prototype, which every mapping inherits from: an object with no
\* own enumerable key.  It is never an input, only the result of a lookup.
ObjectPrototype == Prim("prototype", "")

\* typeof value
TypeOf(v) ==
  IF v.t \in {"null", "array", "object", "prototype"} THEN "object" ELSE v.t

\* !value, for the values typeof calls "object": only null is falsy
Falsy(v) == v.t = "null"

IsArray(v) == v.t = "array"

\* the property names of array indices 0, 1, 2, ...
IndexNames == <<"0", "1", "2", "3", "4", "5", "6", "7">>

\* Object.keys(value): own enumerable keys; an array's are its indices
Keys(v) ==
  IF v.t = "array" THEN SubSeq(IndexNames, 1, Len(v.e)) ELSE v.k

HasOwn(v, key) == \E i \in 1..Len(Keys(v)) : Keys(v)[i] = key

\* value[key]: the own property when there is one, else the inherited one
\* ("__proto__" is inherited by every mapping and yields Object.prototype;
\* Object.prototype's own "__proto__" is null), else undefined.
Get(v, key) ==
  IF HasOwn(v, key)
    THEN v.e[CHOOSE i \in 1..Len(Keys(v)) : Keys(v)[i] = key]
  ELSE IF key = "__proto__" /\ v.t = "object" THEN ObjectPrototype
  ELSE IF key = "__proto__" /\ v.t = "prototype" THEN Null
  ELSE Undefined

\* Object.is(a, b): primitives by value; functions and Object.prototype by
\* reference; two arrays or mappings that were built separately (a returned
\* value and a parsed expected value) are never the same reference.
ObjectIs(x, y) == x = y /\ x.t \notin {"array", "object"}

\* line 73: exactly one of the two is an array (both arrays returned above)
OneIsArrayNever(x, y) == FALSE
OneIsArray(x, y) == IsArray(x) \/ IsArray(y)

RECURSIVE deepEqual(_, _)
deepEqual(x, y) ==
  IF ObjectIs(x, y) THEN TRUE
  ELSE IF TypeOf(x) # "object" \/ TypeOf(y) # "object" \/ Falsy(x) \/ Falsy(y)
    THEN FALSE
  ELSE IF IsArray(x) /\ IsArray(y)
    THEN IF Len(x.e) # Len(y.e) THEN FALSE
         ELSE \A i \in 1..Len(x.e) : deepEqual(x.e[i], Get(y, IndexNames[i]))
  ELSE IF OneIsArray(x, y) THEN FALSE
  ELSE LET aKeys == Keys(x)
           bKeys == Keys(y)
       IN IF Len(aKeys) # Len(bKeys) THEN FALSE
          ELSE \A i \in 1..Len(aKeys) :
                 deepEqual(Get(x, aKeys[i]), Get(y, aKeys[i]))

----------------------------------------------------------------------------
(* The values deepEqual is applied to in SpecEq.                           *)

MaxLen == 2       \* longest array, and most keys of a mapping

\* what a container holds at its leaves; undefined only in returned values
Leaves == {Null, Num("1"), Undefined}
KeyNames == {"0", "k", "__proto__"}

SeqsUpTo(S, n) == UNION {[1..m -> S] : m \in 0..n}
DistinctSeqs(S, n) ==
  {s \in SeqsUpTo(S, n) : \A i, j \in 1..Len(s) : i # j => s[i] # s[j]}

ArraysOf(S, n) == {Arr(es) : es \in SeqsUpTo(S, n)}
MappingsOf(S, n) ==
  UNION {{Obj(ks, vs) : vs \in [1..Len(ks) -> S]} : ks \in DistinctSeqs(KeyNames, n)}

Flat == ArraysOf(Leaves, MaxLen) \cup MappingsOf(Leaves, MaxLen)
Small == ArraysOf(Leaves, 1) \cup MappingsOf(Leaves, 1)
Nested == ArraysOf(Small, 1) \cup MappingsOf(Small, 1)
\* spec.md section 8, scenario 5: {a:1,b:[1,2]} against {b:[1,2],a:1}
Scenario5 ==
  {Obj(<<"a", "b">>, <<Num("1"), Arr(<<Num("1"), Num("2")>>)>>),
   Obj(<<"b", "a">>, <<Arr(<<Num("1"), Num("2")>>), Num("1")>>),
   Obj(<<"b", "a">>, <<Arr(<<Num("2"), Num("1")>>), Num("1")>>)}
Values ==
  {Null, Undefined, Num("1"), Num("2"), Str("s")}
    \cup Flat \cup Nested \cup Scenario5

\* a value JSON.parse can produce: no undefined anywhere in it
RECURSIVE IsJson(_)
IsJson(v) ==
  /\ v.t \in {"null", "number", "string", "boolean", "array", "object"}
  /\ \A i \in 1..Len(v.e) : IsJson(v.e[i])

IsMapping(v) == v.t = "object"

----------------------------------------------------------------------------
(* Serialization: serialize (lines 26-33) and serializeValue (87-94).      *)

\* JSON.stringify gives undefined for these at the top level, "null" for
\* them inside an array, and leaves them out of a mapping
Unserializable(v) == v.t \in {"undefined", "function"}

RECURSIVE JsonText(_), JoinElems(_, _), JoinProps(_, _, _)
JsonText(v) ==
  CASE v.t = "number" -> IF v.p = "NaN" THEN "null" ELSE v.p
    [] v.t = "string" -> "\"" \o v.p \o "\""
    [] v.t = "array" -> "[" \o JoinElems(v.e, 1) \o "]"
    [] v.t \in {"object", "prototype"} -> "{" \o JoinProps(v, 1, TRUE) \o "}"
    [] OTHER -> "null"
JoinElems(es, i) ==
  IF i > Len(es) THEN ""
  ELSE (IF i > 1 THEN "," ELSE "")
         \o (IF Unserializable(es[i]) THEN "null" ELSE JsonText(es[i]))
         \o JoinElems(es, i + 1)
JoinProps(v, i, first) ==
  IF i > Len(v.k) THEN ""
  ELSE IF Unserializable(v.e[i]) THEN JoinProps(v, i + 1, first)
  ELSE (IF first THEN "" ELSE ",")
         \o "\"" \o v.k[i] \o "\":" \o JsonText(v.e[i])
         \o JoinProps(v, i + 1, FALSE)

\* JSON.stringify(value): a string, or undefined.  The values of this model
\* are acyclic, so it never throws and the String(value) fallback of lines
\* 30-32 and 91-93 is not taken.
JsonStringify(v) == IF Unserializable(v) THEN Undefined ELSE Str(JsonText(v))

serialize(v) == IF TypeOf(v) = "string" THEN v ELSE JsonStringify(v)
serializeValue(v) == IF TypeOf(v) = "string" THEN v ELSE JsonStringify(v)

\* parts.join(" "): an undefined part is rendered as the empty string
RECURSIVE JoinLine(_, _)
JoinLine(parts, i) ==
  IF i > Len(parts) THEN ""
  ELSE (IF i > 1 THEN " " ELSE "")
         \o (IF parts[i].t = "string" THEN parts[i].p ELSE "")
         \o JoinLine(parts, i + 1)

\* the line one console call produces: args.map(serialize).join(" ")
LineOf(args) == JoinLine([i \in 1..Len(args) |-> serialize(args[i])], 1)

\* logger (lines 35-37): append the line to the buffer
loggerDeduplicating(buf, args) ==
  IF buf # <<>> /\ buf[Len(buf)] = LineOf(args) THEN buf
  ELSE Append(buf, LineOf(args))
logger(buf, args) == Append(buf, LineOf(args))

\* the buffer after a sequence of console calls
RECURSIVE LogAll(_, _)
LogAll(buf, calls) ==
  IF calls = <<>> THEN buf ELSE LogAll(logger(buf, Head(calls)), Tail(calls))

\* the lines a sequence of console calls produces, in call order
LinesOf(calls) == [i \in 1..Len(calls) |-> LineOf(calls[i])]

----------------------------------------------------------------------------
(* Thrown values.                                                          *)

NoThrow == [kind |-> "none", text |-> ""]
ErrorObj(message) == [kind |-> "Error", text |-> message]
\* a thrown non-Error value that String() converts, e.g. throw "oops"
ThrownString(text) == [kind |-> "string", text |-> text]
\* a thrown non-Error value that String() cannot convert, e.g.
\* throw Object.create(null): String(error) raises a TypeError
ThrownOpaque == [kind |-> "opaque", text |-> ""]

\* error instanceof Error ? error.message : String(error)  (lines 122, 142):
\* the text, or the exception the conversion itself raises
ErrorText(err) ==
  IF err.kind \in {"Error", "string"}
    THEN [threw |-> NoThrow, text |-> err.text]
    ELSE [threw |-> ErrorObj("Cannot convert object to primitive value"),
          text |-> ""]

----------------------------------------------------------------------------
(* Program texts, by what evaluating them does.                            *)

Unbound == Prim("unbound", "")        \* the name is not declared
Absent == Prim("absent", "")          \* the record has no such field
EmptyObject == Obj(<<>>, <<>>)        \* module.exports as runUserCode makes it

HiCall == <<Str("hi"), Num("1")>>     \* console.log("hi", 1)

\* calls      the console calls evaluation makes, in order
\* throws     what evaluation throws after them, if anything
\* local      the value of a `solution` the text declares in its own scope
\* globalSet  the value the text assigns to an undeclared `solution`, which
\*            the wrapper, being sloppy-mode code, makes a global of the worker
\* exports    module.exports when evaluation ends
\* refs       the names the text uses without declaring them, in the order
\*            evaluation reaches them: here the injected ones it needs
Program(calls, throws, local, globalSet, exports) ==
  [calls |-> calls, throws |-> throws, local |-> local,
   globalSet |-> globalSet, exports |-> exports,
   refs |-> (IF calls # <<>> THEN <<"console">> ELSE <<>>)
              \o (IF exports # EmptyObject THEN <<"module">> ELSE <<>>)]

\* the text of p with statements put in front that use these names
Using(names, p) == [p EXCEPT !.refs = names \o @]

\* the parameters of the wrapper (lines 54-56)
Injected == {"module", "exports", "console"}
\* names of the worker's global scope, which the wrapper's body, being the
\* body of a `new Function`, resolves as any global code of the worker does
WorkerGlobals == {"postMessage", "self", "fetch"}

\* the index of the first name of refs that resolves nowhere, or 0
FirstUnresolved(refs) ==
  IF \A i \in 1..Len(refs) : refs[i] \in Injected \cup WorkerGlobals THEN 0
  ELSE CHOOSE i \in 1..Len(refs) :
         /\ refs[i] \notin Injected \cup WorkerGlobals
         /\ \A j \in 1..(i - 1) : refs[j] \in Injected \cup WorkerGlobals

\* the message a text posts itself when it calls postMessage
Forged ==
  [ok |-> TRUE, error |-> "", logs |-> <<"forged">>,
   results |-> <<[name |-> "forged", pass |-> TRUE, error |-> Absent,
                  expected |-> Absent, actual |-> Absent]>>]

Programs ==
  { \* (empty text)
    Program(<<>>, NoThrow, Unbound, Unbound, EmptyObject),
    \* function solution(x) { ... }                      (f, see Invoke)
    Program(<<>>, NoThrow, Fn("f"), Unbound, EmptyObject),
    \* console.log("hi", 1); console.log("hi", 1); function solution(x) { ... }
    Program(<<HiCall, HiCall>>, NoThrow, Fn("f"), Unbound, EmptyObject),
    \* function solution(x) { ... }  module.exports = function () { ... };
    Program(<<>>, NoThrow, Fn("f"), Unbound, Fn("h")),
    \* module.exports = function () { ... };              (h)
    Program(<<>>, NoThrow, Unbound, Unbound, Fn("h")),
    \* var solution; module.exports = function () { ... };
    Program(<<>>, NoThrow, Undefined, Unbound, Fn("h")),
    \* const solution = 1;
    Program(<<>>, NoThrow, Num("1"), Unbound, EmptyObject),
    \* solution = (x) => { ... };                         (g, no declaration)
    Program(<<>>, NoThrow, Unbound, Fn("g"), EmptyObject),
    \* solution = (x) => { ... }; module.exports = function () { ... };
    Program(<<>>, NoThrow, Unbound, Fn("g"), Fn("h")),
    \* console.log("hi", 1); console.log("hi", 1); throw new Error("boom");
    Program(<<HiCall, HiCall>>, ErrorObj("boom"), Unbound, Unbound, EmptyObject),
    \* throw "oops";
    Program(<<>>, ThrownString("oops"), Unbound, Unbound, EmptyObject),
    \* console.log("hi", 1); throw Object.create(null);
    Program(<<HiCall>>, ThrownOpaque, Unbound, Unbound, EmptyObject) }

NoProgram ==
  [calls |-> <<>>, throws |-> NoThrow, local |-> Unbound,
   globalSet |-> Unbound, exports |-> EmptyObject, refs |-> <<>>]

\* what calling the function does with the argument vector args
\*   f: function solution(x) { if (x === undefined) throw new Error("boom");
\*        console.log("got", x); if (x === null) throw Object.create(null);
\*        console.log("got", x); return x; }
\*   g: (x) => { if (x === null) throw "bad"; return 2; }
\*   h: function () { console.log(undefined); }
\*   sqrt: function solution(n) { return Math.sqrt(n); }, for the arguments
\*        of the sample cases: numbers, null, undefined and the string "x"
Invoke(fn, args) ==
  LET x == IF Len(args) = 0 THEN Undefined ELSE args[1]
      got == <<Str("got"), x>>
  IN CASE fn = Fn("f") ->
            IF x = Undefined
              THEN [calls |-> <<>>, ret |-> Undefined, throws |-> ErrorObj("boom")]
            ELSE IF x = Null
              THEN [calls |-> <<got>>, ret |-> Undefined, throws |-> ThrownOpaque]
            ELSE [calls |-> <<got, got>>, ret |-> x, throws |-> NoThrow]
       [] fn = Fn("g") ->
            IF x = Null
              THEN [calls |-> <<>>, ret |-> Undefined, throws |-> ThrownString("bad")]
            ELSE [calls |-> <<>>, ret |-> Num("2"), throws |-> NoThrow]
       [] fn = Fn("sqrt") ->
            [calls |-> <<>>, throws |-> NoThrow,
             ret |-> CASE x = Num("9") -> Num("3")
                       [] x = Num("2") -> Num("1.4142135623730951")
                       [] x \in {Num("0"), Num("1")} -> x
                       [] x = Null -> Num("0")
                       [] OTHER -> Num("NaN")]
       [] OTHER ->
            [calls |-> <<<<Undefined>>>>, ret |-> Undefined, throws |-> NoThrow]

----------------------------------------------------------------------------
(* Host: parseValue and handleRun (page.tsx).                              *)

MaxCases == 3         \* most cases of one request
MaxRequests == 2      \* Run actions of one behaviour

\* the texts of one case as the user typed them (TestCaseDraft)
Draft(args, expected) == [args |-> args, expected |-> expected]
Drafts == {Draft("", "1"), Draft("1", "1"), Draft("1", ""), Draft("null", "1")}

\* raw.trim(), for the texts of this model: two of them have outer blanks
Trim(raw) ==
  CASE raw = " x " -> "x"
    [] raw = " " -> ""
    [] OTHER -> raw

\* JSON.parse on the texts of this model: the value, or Absent when it throws
JsonParse(text) ==
  CASE text \in {"0", "1", "2", "3", "9", "1.41421356237"} -> Num(text)
    [] text = "null" -> Null
    [] text = "[1]" -> Arr(<<Num("1")>>)
    [] text = "[1,1]" -> Arr(<<Num("1"), Num("1")>>)
    [] OTHER -> Absent

\* parseValue (page.tsx 51-59)
parseValue(raw) ==
  LET trimmed == Trim(raw)
  IN IF trimmed = "" THEN Undefined
     ELSE IF JsonParse(trimmed) # Absent THEN JsonParse(trimmed)
     ELSE Str(trimmed)

ArgsOfWrapping(draft) == <<parseValue(draft.args)>>
\* page.tsx 196-198
ArgsOf(draft) ==
  LET argsValue == parseValue(draft.args)
  IN IF IsArray(argsValue) THEN argsValue.e
     ELSE IF argsValue # Undefined THEN <<argsValue>> ELSE <<>>

\* page.tsx 199-202: `Case ${index + 1} ${labelBase}`.trim()
CaseName(i, draft) ==
  IF Trim(draft.args) = "" THEN "Case " \o IndexNames[i + 1]
  ELSE "Case " \o IndexNames[i + 1] \o " (" \o draft.args \o ")"

\* page.tsx 192-206
ParsedCases(drafts) ==
  [i \in 1..Len(drafts) |->
     [name |-> CaseName(i, drafts[i]),
      args |-> ArgsOf(drafts[i]),
      expected |-> parseValue(drafts[i].expected)]]

NoRequest == [code |-> NoProgram, cases |-> <<>>]

\* handleRun (page.tsx 190-213) when the page holds the code c and these
\* case drafts
Dispatch(c, drafts) ==
  /\ inbox' = Append(inbox, [code |-> c, cases |-> ParsedCases(drafts)])
  /\ status' = "running"
  /\ hostError' = <<>>
  /\ hostResults' = <<>>
  /\ hostLogs' = <<>>
  /\ nreq' = nreq + 1
  /\ handled' = <<>>
  /\ UNCHANGED <<outbox, outboxFor, eqVars, pageVars, workerVars, histVars>>

\* handleRun, the code and the cases being what the user has typed by then;
\* the Run button is disabled while the status is "running" (page.tsx 247)
HandleRun ==
  /\ status # "running"
  /\ nreq < MaxRequests
  /\ \E c \in Programs, drafts \in SeqsUpTo(Drafts, MaxCases) :
       Dispatch(c, drafts)

\* the response leaves the channel
PopResponse ==
  /\ handled' = <<Head(outbox)>>
  /\ outbox' = Tail(outbox)
  /\ outboxFor' = Tail(outboxFor)
  \* when the worker's handler is over, so is the exchange: its history is
  \* dropped
  /\ IF wpc = "idle"
       THEN /\ emitted' = <<>>
            /\ invoked' = <<>>
            /\ lastReq' = <<>>
            /\ lastSolution' = Unbound
            /\ lastResults' = <<>>
            /\ lastResp' = <<>>
            /\ reached' = {}
       ELSE UNCHANGED exchVars
  /\ UNCHANGED <<nreq, inbox, eqVars, pageVars, workerVars, countVars, pageHist>>

\* worker.onmessage of the page (page.tsx 95-107) without line 104
HostOnMessageKeepingResults ==
  /\ outbox # <<>>
  /\ IF Head(outbox).ok
       THEN /\ status' = "idle"
            /\ hostResults' = Head(outbox).results
            /\ hostLogs' = Head(outbox).logs
            /\ hostError' = <<>>
       ELSE /\ status' = "error"
            /\ hostLogs' = Head(outbox).logs
            /\ hostError' = <<Head(outbox).error>>
            /\ UNCHANGED hostResults
  /\ PopResponse

\* worker.onmessage of the page (page.tsx 95-107)
HostOnMessage ==
  /\ outbox # <<>>
  /\ IF Head(outbox).ok
       THEN /\ status' = "idle"
            /\ hostResults' = Head(outbox).results
            /\ hostLogs' = Head(outbox).logs
            /\ hostError' = <<>>
       ELSE /\ status' = "error"
            /\ hostResults' = <<>>
            /\ hostLogs' = Head(outbox).logs
            /\ hostError' = <<Head(outbox).error>>
  /\ PopResponse

----------------------------------------------------------------------------
(* The page's editable state, its persistence and Generate (page.tsx,      *)
(* src/unnamed/part_003).                                                  *)

MaxEdits == 2         \* changes of the editable fields in one behaviour

Max(x, y) == IF x >= y THEN x ELSE y

defaultPrompt == "Write a JavaScript function named solution(n) ..."
\* function solution(n) { return Math.sqrt(n); }
defaultCode == Program(<<>>, NoThrow, Fn("sqrt"), Unbound, EmptyObject)
Case(id, args, expected) == [id |-> id, args |-> args, expected |-> expected]
defaultCases ==
  <<Case("case-1", "9", "3"), Case("case-2", "0", "0"),
    Case("case-3", "2", "1.41421356237")>>

\* a stored item, parsed: a field that is missing, or not of the type the
\* page asks for, is <<>>, a field the page accepts is <<its value>>
Item(version, p, c, cs, k) ==
  [version |-> version, prompt |-> p, code |-> c, cases |-> cs, apiKey |-> k]

\* the payload of a save (page.tsx 142-148)
Payload(p, c, cs, k) == Item(1, <<p>>, <<c>>, <<cs>>, <<k>>)

\* load (part_003 18-29): null when nothing is stored, when the text does
\* not parse, or when the version is not 1
load(store) ==
  IF store = <<>> THEN <<>>
  ELSE IF store[1].version # 1 THEN <<>>
  ELSE store

\* The numbers of page.tsx are IEEE doubles: every integer up to 2^53 is one,
\* above it only every second integer is. The model's integers are narrower
\* than that, so the model integer Exact + k stands for 2^53 + k
\* (2^53 = 9007199254740992), for the few k the model needs.
Exact == 1000000

\* the decimal digits of an integer
Decimal(n) ==
  IF n < Exact THEN ToString(n)
  ELSE "90071992547409" \o ToString(92 + (n - Exact))

\* the double nearest to an integer, ties to the even mantissa
Round(n) ==
  IF n <= Exact \/ (n - Exact) % 2 = 0 THEN n
  ELSE IF (n - Exact - 1) % 4 = 0 THEN n - 1 ELSE n + 1

\* the id addCase gives the case numbered n (page.tsx 224)
CaseId(n) == "case-" \o Decimal(n)

\* the digit strings the ids of the model hold
CaseDigits == 1..9 \cup {Exact + k : k \in 0..2}

\* /case-(\d+)/ on an id, then parseInt: the number, or 0 without a match
CaseTexts == [n \in CaseDigits |-> "case-" \o Decimal(n)]
CaseNumber(id) ==
  IF \E n \in CaseDigits : id = CaseTexts[n]
    THEN Round(CHOOSE n \in CaseDigits : id = CaseTexts[n])
    ELSE 0

\* getNextCaseId (page.tsx 63-75)
RECURSIVE MaxCaseNumber(_, _)
MaxCaseNumber(items, maxId) ==
  IF items = <<>> THEN maxId
  ELSE MaxCaseNumber(Tail(items), Max(maxId, CaseNumber(Head(items).id)))
getNextCaseId(items) == Round(MaxCaseNumber(items, 0) + 1)

\* clearTimeout(persistTimer.current): the pending save, if any, is cancelled
clearTimeoutNoop(queue) == queue
clearTimeout(queue) == <<>>

\* the persist effect (page.tsx 136-157) when a render changed one of its
\* dependencies: the previous run's cleanup, then the body
PersistEffect(hydrated, payload, queue) ==
  LET cleaned == clearTimeout(queue)
  IN IF ~hydrated THEN cleaned ELSE Append(cleaned, payload)

\* a render after the setters left these values; renewed says that setCases
\* was given a list, which is a new array whatever it holds
Render(p, c, cs, k, renewed) ==
  /\ prompt' = p
  /\ code' = c
  /\ cases' = cs
  /\ apiKey' = k
  /\ timers' = IF renewed \/ <<p, c, k>> # <<prompt, code, apiKey>>
                 THEN PersistEffect(isHydrated, Payload(p, c, cs, k), timers)
                 ELSE timers

\* what the setters of page.tsx 115-121 and 125-131 leave for a loaded item
Applied(item) ==
  [prompt |-> IF item.prompt # <<>> THEN item.prompt[1] ELSE prompt,
   code |-> IF item.code # <<>> THEN item.code[1] ELSE code,
   cases |-> IF item.cases # <<>> THEN item.cases[1] ELSE cases,
   apiKey |-> IF item.apiKey # <<>> THEN item.apiKey[1] ELSE apiKey,
   nextId |-> IF item.cases # <<>>
                THEN Max(nextId, getNextCaseId(item.cases[1])) ELSE nextId]

\* the hydration effect (page.tsx 112-134) with the renders it causes: the
\* persist effect of the first render runs with isHydrated false, the one of
\* the next render with the loaded state and isHydrated true
Hydrate ==
  /\ ~isHydrated
  /\ LET saved == load(storage)
         now == IF saved # <<>> THEN Applied(saved[1])
                ELSE [prompt |-> prompt, code |-> code, cases |-> cases,
                      apiKey |-> apiKey, nextId |-> nextId]
         first == PersistEffect(FALSE, Payload(prompt, code, cases, apiKey), timers)
     IN /\ prompt' = now.prompt
        /\ code' = now.code
        /\ cases' = now.cases
        /\ apiKey' = now.apiKey
        /\ nextId' = now.nextId
        /\ timers' = PersistEffect(TRUE,
                       Payload(now.prompt, now.code, now.cases, now.apiKey), first)
  /\ isHydrated' = TRUE
  /\ UNCHANGED <<storage, gen, eqVars, hostVars, chanVars, workerVars,
                 countVars, exchVars, pageHist>>

\* the texts and items the inputs of the page's actions are drawn from
PromptTexts == {defaultPrompt, "p"}
KeyTexts == {"", "k"}
\* function solution(x) { ... }  (f)
PageCodes == {defaultCode, Program(<<>>, NoThrow, Fn("f"), Unbound, EmptyObject)}
\* what is typed into a case: the field, and the text it gets
Patches == {<<"args", "[1,1]">>, <<"expected", " ">>}
StoredCases == <<Case("case-1", "[1,1]", "[1]"), Case("case-5", " x ", " x ")>>
ImportedCases == <<Case(CaseId(Exact), "9", "3")>>
StoredItems ==
  { \* written by this page earlier
    Item(1, <<"p">>, <<Program(<<>>, NoThrow, Fn("f"), Unbound, EmptyObject)>>,
         <<StoredCases>>, <<"k">>),
    \* written by a version of the page that stored no API key, and whose
    \* cases field is not a list
    Item(1, <<"p">>, <<defaultCode>>, <<>>, <<>>),
    \* written by a later version of the page
    Item(2, <<"p">>, <<defaultCode>>, <<StoredCases>>, <<"k">>),
    \* written by another program of the origin: a list of cases only
    Item(1, <<>>, <<>>, <<ImportedCases>>, <<>>) }

\* history: one more change of the editable fields
Edited ==
  /\ nedits < MaxEdits
  /\ nedits' = nedits + 1
  /\ touched' = TRUE
  /\ UNCHANGED <<stored0, saves>>

PageFrame ==
  UNCHANGED <<isHydrated, storage, gen, eqVars, hostVars, chanVars, workerVars,
              countVars, exchVars>>

\* the inputs' onChange handlers (page.tsx 262, 277, 287)
SetApiKey ==
  /\ \E k \in KeyTexts \ {apiKey} : Render(prompt, code, cases, k, FALSE)
  /\ Edited /\ PageFrame /\ UNCHANGED nextId
SetPrompt ==
  /\ \E p \in PromptTexts \ {prompt} : Render(p, code, cases, apiKey, FALSE)
  /\ Edited /\ PageFrame /\ UNCHANGED nextId
SetCode ==
  /\ \E c \in PageCodes \ {code} : Render(prompt, c, cases, apiKey, FALSE)
  /\ Edited /\ PageFrame /\ UNCHANGED nextId

\* updateCase (page.tsx 215-221), called by the case inputs (305-315)
Patched(list, id, field, text) ==
  [i \in 1..Len(list) |->
     IF list[i].id = id THEN [list[i] EXCEPT ![field] = text] ELSE list[i]]
UpdateCase ==
  /\ \E i \in 1..Len(cases), patch \in Patches :
       Render(prompt, code, Patched(cases, cases[i].id, patch[1], patch[2]), apiKey, TRUE)
  /\ Edited /\ PageFrame /\ UNCHANGED nextId

\* addCase (page.tsx 223-226)
AddCase ==
  /\ Render(prompt, code, Append(cases, Case(CaseId(nextId), "", "")), apiKey, TRUE)
  /\ nextId' = Round(nextId + 1)
  /\ Edited /\ PageFrame

\* removeCase (page.tsx 228-230), called by a case's Remove button
Without(list, id) == SelectSeq(list, LAMBDA tc : tc.id # id)
RemoveCase ==
  /\ \E i \in 1..Len(cases) :
       Render(prompt, code, Without(cases, cases[i].id), apiKey, TRUE)
  /\ Edited /\ PageFrame /\ UNCHANGED nextId

\* another page of the same origin stores an item: the storage event
\* (part_003 40-49), then the subscriber of page.tsx 124-132
StorageEvent ==
  /\ isHydrated
  /\ \E item \in StoredItems :
       /\ storage' = <<item>>
       /\ IF item.version # 1
            THEN UNCHANGED <<prompt, code, cases, apiKey, nextId, timers>>
            ELSE LET now == Applied(item)
                 IN /\ Render(now.prompt, now.code, now.cases, now.apiKey,
                              item.cases # <<>>)
                    /\ nextId' = now.nextId
  /\ Edited
  /\ UNCHANGED <<isHydrated, gen, eqVars, hostVars, chanVars, workerVars,
                 countVars, exchVars>>

\* save (part_003 30-37): the item is written, unless the write fails, which
\* goes unreported
save(store, payload, written) == IF written THEN <<payload>> ELSE store

\* the timeout of page.tsx 141-150 fires
TimerFires ==
  /\ timers # <<>>
  /\ \E written \in BOOLEAN : storage' = save(storage, Head(timers), written)
  /\ timers' = Tail(timers)
  /\ saves' = TRUE
  /\ UNCHANGED <<prompt, code, cases, apiKey, nextId, isHydrated, gen, nedits,
                 stored0, touched, eqVars, hostVars, chanVars, workerVars,
                 countVars, exchVars>>

\* handleGenerate (page.tsx 164-168) up to the fetch; the Generate button is
\* disabled while the status is "running" (page.tsx 244)
HandleGenerate ==
  /\ status # "running"
  /\ status' = "running"
  /\ hostError' = <<>>
  /\ hostResults' = <<>>
  /\ hostLogs' = <<>>
  /\ handled' = <<>>
  /\ gen' = gen + 1
  /\ UNCHANGED <<nreq, prompt, code, cases, apiKey, nextId, isHydrated, timers,
                 storage, eqVars, chanVars, workerVars, histVars>>

\* what /api/generate answers with: code the model wrote, or no code
\* (data.code ?? ""), or an error
GeneratedCodes ==
  {Program(<<>>, NoThrow, Fn("f"), Unbound, EmptyObject),
   Program(<<>>, NoThrow, Unbound, Unbound, EmptyObject)}
GenerateErrors == {"Missing prompt."}

\* handleGenerate (page.tsx 178-187) once the fetch has settled
GenerateResult ==
  /\ gen > 0
  /\ gen' = gen - 1
  /\ \/ \E c \in GeneratedCodes :
          /\ Render(prompt, c, cases, apiKey, FALSE)
          /\ status' = "idle"
          /\ touched' = (touched \/ c # code)
          /\ UNCHANGED hostError
     \/ \E message \in GenerateErrors :
          /\ status' = "error"
          /\ hostError' = <<message>>
          /\ UNCHANGED <<prompt, code, cases, apiKey, timers, touched>>
  /\ handled' = <<>>
  /\ UNCHANGED <<hostResults, hostLogs, nreq, nextId, isHydrated, storage,
                 nedits, stored0, saves, eqVars, chanVars, workerVars, countVars,
                 exchVars>>

\* handleRun for the code and the cases the page holds
HandleRunPage ==
  /\ status # "running"
  /\ nreq < MaxRequests
  /\ Dispatch(code, cases)

----------------------------------------------------------------------------
(* Worker: self.onmessage (lines 130-147), one action per step.            *)

Success(res, buf) == [ok |-> TRUE, results |-> res, error |-> "", logs |-> buf]
Failure(message, buf) ==
  [ok |-> FALSE, results |-> <<>>, error |-> message, logs |-> buf]

\* the rest of lines 130-132 once the buffer is there
TakeMessage ==
  /\ wpc = "idle"
  /\ inbox # <<>>
  /\ cur' = Head(inbox)
  /\ inbox' = Tail(inbox)
  /\ wpc' = "load"
  /\ received' = received + 1
  /\ emitted' = <<>>
  /\ invoked' = <<>>
  /\ lastReq' = <<>>
  /\ lastSolution' = Unbound
  /\ lastResults' = <<>>
  /\ lastResp' = <<>>
  /\ reached' = {}
  /\ UNCHANGED <<outbox, outboxFor, solution, results, idx, caught,
                 globalSolution, posted, uncaught, eqVars, hostVars, pageVars,
                 pageHist>>

\* lines 130-132 with the buffer of the previous call instead of a new one
OnMessageReusingBuffer ==
  /\ UNCHANGED <<logs, logsFrom>>
  /\ TakeMessage

\* lines 130-132: take the message, make a fresh console buffer
OnMessage ==
  /\ logs' = <<>>
  /\ logsFrom' = <<>>
  /\ TakeMessage

\* line 57: typeof solution !== "undefined" ? solution : module.exports,
\* where `solution` is the text's own declaration when it has one and the
\* worker's global otherwise
Resolve(p, global) ==
  LET bound == IF p.local # Unbound THEN p.local ELSE global
  IN IF bound \notin {Unbound, Undefined} THEN bound ELSE p.exports

\* what the wrapper of lines 53-59 does for the text p when the worker's
\* global `solution` is global.  A name the text uses and that resolves
\* nowhere raises a ReferenceError where it is used, which in the sample
\* texts is before anything else they do.
\*   got     the names resolved outside the text
\*   posts   the messages the text posts itself
\*   calls   the console calls made
\*   thrown  what the wrapper throws, if anything
\*   global  the worker's global `solution` afterwards
\*   value   what the wrapper returns when it does not throw
wrapper(p, global) ==
  LET bad == FirstUnresolved(p.refs)
      got == SubSeq(p.refs, 1, IF bad = 0 THEN Len(p.refs) ELSE bad - 1)
      after == IF bad = 0 /\ p.globalSet # Unbound THEN p.globalSet ELSE global
  IN [got |-> {got[i] : i \in 1..Len(got)},
      posts |-> [i \in 1..Len(SelectSeq(got, LAMBDA n : n = "postMessage"))
                   |-> Forged],
      calls |-> IF bad = 0 THEN p.calls ELSE <<>>,
      thrown |-> IF bad = 0 THEN p.throws
                 ELSE ErrorObj(p.refs[bad] \o " is not defined"),
      global |-> after,
      value |-> Resolve(p, after)]

\* runUserCode (lines 50-60), called at line 135; a message the text posts
\* itself goes to the page at once
RunUserCode ==
  /\ wpc = "load"
  /\ LET run == wrapper(cur.code, globalSolution)
     IN /\ reached' = reached \cup run.got
        /\ outbox' = outbox \o run.posts
        /\ outboxFor' = outboxFor \o [i \in 1..Len(run.posts) |-> received]
        /\ logs' = LogAll(logs, run.calls)
        /\ logsFrom' = logsFrom \o [i \in 1..Len(run.calls) |-> received]
        /\ emitted' = emitted \o LinesOf(run.calls)
        /\ globalSolution' = run.global
        /\ IF run.thrown # NoThrow
             THEN /\ caught' = run.thrown
                  /\ wpc' = "catch"
                  /\ UNCHANGED solution
             ELSE /\ solution' = run.value
                  /\ wpc' = "tests"
                  /\ UNCHANGED caught
  /\ UNCHANGED <<cur, results, idx, countVars, invoked, lastReq, lastSolution,
                 lastResults, lastResp, inbox, eqVars, hostVars, pageVars,
                 pageHist>>

\* runTests, lines 96-101
RunTestsEnter ==
  /\ wpc = "tests"
  /\ IF TypeOf(solution) # "function"
       THEN /\ caught' = ErrorObj("solution must be a function.")
            /\ wpc' = "catch"
            /\ UNCHANGED <<results, idx>>
       ELSE /\ results' = <<>>
            /\ idx' = 1
            /\ wpc' = "cases"
            /\ UNCHANGED caught
  /\ UNCHANGED <<cur, logs, logsFrom, solution, globalSolution, histVars,
                 chanVars, eqVars, hostVars, pageVars>>

PassResult(tc) ==
  [name |-> tc.name, pass |-> TRUE,
   error |-> Absent, expected |-> Absent, actual |-> Absent]
\* lines 110-116
MismatchResultBare(tc, actual) ==
  [name |-> tc.name, pass |-> FALSE, error |-> Str("Output mismatch."),
   expected |-> Absent, actual |-> Absent]
MismatchResult(tc, actual) ==
  [name |-> tc.name, pass |-> FALSE, error |-> Str("Output mismatch."),
   expected |-> serializeValue(tc.expected), actual |-> serializeValue(actual)]
\* lines 119-123
ThrowResult(tc, text) ==
  [name |-> tc.name, pass |-> FALSE, error |-> Str(text),
   expected |-> Absent, actual |-> Absent]
\* lines 107-117
CompareResult(tc, actual) ==
  IF deepEqual(actual, tc.expected) THEN PassResult(tc)
  ELSE MismatchResult(tc, actual)

\* results.push(...)
PushFront(res, r) == <<r>> \o res
Push(res, r) == Append(res, r)

\* runTests, lines 102-125: one iteration of the loop
InvokeCase ==
  /\ wpc = "cases"
  /\ idx <= Len(cur.cases)
  /\ LET tc == cur.cases[idx]
         out == Invoke(solution, tc.args)
         txt == ErrorText(out.throws)
     IN /\ logs' = LogAll(logs, out.calls)
        /\ logsFrom' = logsFrom \o [i \in 1..Len(out.calls) |-> received]
        /\ emitted' = emitted \o LinesOf(out.calls)
        /\ invoked' = Append(invoked, solution)
        /\ reached' = reached \cup (IF out.calls # <<>> THEN {"console"} ELSE {})
        /\ IF out.throws = NoThrow
             THEN /\ results' = Push(results, CompareResult(tc, out.ret))
                  /\ idx' = idx + 1
                  /\ UNCHANGED <<wpc, caught>>
           ELSE IF txt.threw = NoThrow
             THEN /\ results' = Push(results, ThrowResult(tc, txt.text))
                  /\ idx' = idx + 1
                  /\ UNCHANGED <<wpc, caught>>
           ELSE /\ caught' = txt.threw
                /\ wpc' = "catch"
                /\ UNCHANGED <<results, idx>>
  /\ UNCHANGED <<cur, solution, globalSolution, countVars, lastReq,
                 lastSolution, lastResults, lastResp, chanVars, eqVars, hostVars,
                 pageVars, pageHist>>

\* line 147: the handler is over (it returned, or an exception left it):
\* its locals are gone, the worker's global scope stays; the buffer is kept
\* here as it was left, until captureConsole is called again
HandlerEnds ==
  /\ wpc' = "idle"
  /\ cur' = NoRequest
  /\ UNCHANGED <<logs, logsFrom>>
  /\ solution' = Unbound
  /\ results' = <<>>
  /\ idx' = 0
  /\ caught' = NoThrow
  /\ lastReq' = <<cur>>
  /\ lastSolution' = solution
  /\ lastResults' = results
  /\ UNCHANGED <<inbox, globalSolution, received, emitted, invoked, reached,
                 eqVars, hostVars, pageVars, pageHist>>

\* lines 127, 137-138: the loop is over; post the Success
PostSuccess ==
  /\ wpc = "cases"
  /\ idx > Len(cur.cases)
  /\ outbox' = Append(outbox, Success(results, logs))
  /\ outboxFor' = Append(outboxFor, received)
  /\ lastResp' = <<Success(results, logs)>>
  /\ posted' = posted + 1
  /\ UNCHANGED uncaught
  /\ HandlerEnds

\* lines 139-146: the catch; when converting the caught value throws, the
\* exception leaves the handler and nothing is posted
PostFailure ==
  /\ wpc = "catch"
  /\ LET txt == ErrorText(caught)
     IN IF txt.threw = NoThrow
          THEN /\ outbox' = Append(outbox, Failure(txt.text, logs))
               /\ outboxFor' = Append(outboxFor, received)
               /\ lastResp' = <<Failure(txt.text, logs)>>
               /\ posted' = posted + 1
               /\ UNCHANGED uncaught
          ELSE /\ uncaught' = uncaught + 1
               /\ UNCHANGED <<outbox, outboxFor, lastResp, posted>>
  /\ HandlerEnds

InitRunner ==
  /\ status = "idle"
  /\ hostResults = <<>>
  /\ hostLogs = <<>>
  /\ hostError = <<>>
  /\ nreq = 0
  /\ handled = <<>>
  /\ gen = 0
  /\ nextId = 4
  /\ timers = <<>>
  /\ nedits = 0
  /\ touched = FALSE
  /\ saves = FALSE
  /\ inbox = <<>>
  /\ outbox = <<>>
  /\ outboxFor = <<>>
  /\ reached = {}
  /\ wpc = "idle"
  /\ cur = NoRequest
  /\ logs = <<>>
  /\ logsFrom = <<>>
  /\ solution = Unbound
  /\ results = <<>>
  /\ idx = 0
  /\ caught = NoThrow
  /\ globalSolution = Unbound
  /\ received = 0
  /\ posted = 0
  /\ uncaught = 0
  /\ emitted = <<>>
  /\ invoked = <<>>
  /\ lastReq = <<>>
  /\ lastSolution = Unbound
  /\ lastResults = <<>>
  /\ lastResp = <<>>

\* the page as constructed (page.tsx 78-89), nothing being stored
InitPage ==
  /\ prompt = defaultPrompt
  /\ code = defaultCode
  /\ cases = defaultCases
  /\ apiKey = ""
  /\ isHydrated = FALSE
  /\ storage = <<>>
  /\ stored0 = <<>>

Init ==
  /\ InitRunner
  /\ InitPage
  /\ a = Null
  /\ b = Null
  /\ eqPc = "off"
  /\ fwd = FALSE
  /\ rev = FALSE

Next ==
  \/ HandleRun
  \/ HostOnMessage
  \/ OnMessage
  \/ RunUserCode
  \/ RunTestsEnter
  \/ InvokeCase
  \/ PostSuccess
  \/ PostFailure

----------------------------------------------------------------------------
(* SpecEq: deepEqual on every pair of Values, in both argument orders.     *)

InitEq ==
  /\ InitRunner
  /\ InitPage
  /\ a \in Values
  /\ b \in Values
  /\ eqPc = "input"
  /\ fwd = FALSE
  /\ rev = FALSE

Compare ==
  /\ eqPc = "input"
  /\ fwd' = deepEqual(a, b)
  /\ eqPc' = "compared"
  /\ UNCHANGED <<a, b, rev, hostVars, pageVars, chanVars, workerVars, histVars>>

CompareSwapped ==
  /\ eqPc = "compared"
  /\ rev' = deepEqual(b, a)
  /\ eqPc' = "swapped"
  /\ UNCHANGED <<a, b, fwd, hostVars, pageVars, chanVars, workerVars, histVars>>

NextEq == Compare \/ CompareSwapped

----------------------------------------------------------------------------
(* SpecAmbient: the page, hydrated and saved, with the worker; the code of *)
(* the page is a text that uses names it does not declare.                 *)

AmbientPrograms ==
  { \* postMessage({ ok: true, results: [{ name: "forged", pass: true }],
    \*               logs: ["forged"] });
    Using(<<"postMessage">>, Program(<<>>, NoThrow, Unbound, Unbound, EmptyObject)),
    \* postMessage({ ... as above ... }); console.log("hi", 1);
    Using(<<"postMessage">>,
          Program(<<HiCall>>, NoThrow, Unbound, Unbound, EmptyObject)),
    \* test("echoes", () => assert(solution(1) === 1));
    \* function solution(x) { ... }                                    (f)
    Using(<<"test", "assert">>,
          Program(<<>>, NoThrow, Fn("f"), Unbound, EmptyObject)),
    \* assert(typeof solution === "function"); function solution(x) { ... }
    Using(<<"assert">>, Program(<<>>, NoThrow, Fn("f"), Unbound, EmptyObject)),
    \* setStatus("idle"); function solution(x) { ... }
    Using(<<"setStatus">>, Program(<<>>, NoThrow, Fn("f"), Unbound, EmptyObject)),
    \* console.log("hi", 1); console.log("hi", 1); function solution(x) { ... }
    Program(<<HiCall, HiCall>>, NoThrow, Fn("f"), Unbound, EmptyObject),
    \* console.log("hi", 1); throw Object.create(null);
    Program(<<HiCall>>, ThrownOpaque, Unbound, Unbound, EmptyObject),
    defaultCode }

AmbientCases == {defaultCases, <<Case("case-1", "1", "1")>>}

InitAmbient ==
  /\ InitRunner
  /\ prompt = defaultPrompt
  /\ code \in AmbientPrograms
  /\ cases \in AmbientCases
  /\ apiKey = ""
  /\ isHydrated = TRUE
  /\ storage = <<Payload(prompt, code, cases, apiKey)>>
  /\ stored0 = storage
  /\ a = Null
  /\ b = Null
  /\ eqPc = "off"
  /\ fwd = FALSE
  /\ rev = FALSE

NextAmbient ==
  \/ HandleRunPage
  \/ HostOnMessage
  \/ OnMessage
  \/ RunUserCode
  \/ RunTestsEnter
  \/ InvokeCase
  \/ PostSuccess
  \/ PostFailure
  \/ HandleGenerate
  \/ GenerateResult
  \/ TimerFires

----------------------------------------------------------------------------
(* SpecHost: the page alone, from its construction: hydration, editing,    *)
(* persistence, Generate and the requests Run builds.                      *)

InitHost ==
  /\ InitRunner
  /\ prompt = defaultPrompt
  /\ code = defaultCode
  /\ cases = defaultCases
  /\ apiKey = ""
  /\ isHydrated = FALSE
  /\ storage \in {<<>>} \cup {<<item>> : item \in StoredItems}
  /\ stored0 = storage
  /\ a = Null
  /\ b = Null
  /\ eqPc = "off"
  /\ fwd = FALSE
  /\ rev = FALSE

NextHost ==
  \/ Hydrate
  \/ SetApiKey
  \/ SetPrompt
  \/ SetCode
  \/ UpdateCase
  \/ AddCase
  \/ RemoveCase
  \/ StorageEvent
  \/ TimerFires
  \/ HandleGenerate
  \/ GenerateResult
  \/ HandleRunPage

vars == <<eqVars, hostVars, pageVars, chanVars, workerVars, histVars>>

Spec == Init /\ [][Next]_vars

\* the worker runs its handler to the end, and each thread's event loop
\* delivers the messages queued for it; nothing obliges the user to act
Scheduling ==
  /\ WF_vars(OnMessage)
  /\ WF_vars(RunUserCode)
  /\ WF_vars(RunTestsEnter)
  /\ WF_vars(InvokeCase)
  /\ WF_vars(PostSuccess)
  /\ WF_vars(PostFailure)
  /\ WF_vars(HostOnMessage)
SpecLive == Spec /\ Scheduling

SpecEq == InitEq /\ [][NextEq]_vars
SpecAmbient == InitAmbient /\ [][NextAmbient]_vars
SpecHost == InitHost /\ [][NextHost]_vars

----------------------------------------------------------------------------
(* Claims about the worker's handler, stated for Spec.                     *)

\* C1: for every request message the handler receives it posts exactly one
\* response, never zero and never two: at no time more responses than
\* requests, and as many once the handler is over.
C1_ExactlyOneResponse ==
  /\ posted <= received
  /\ wpc = "idle" => posted = received

\* C2: a response with ok:true has exactly one result per case of its
\* request, and results[i].name = cases[i].name for every i.
C2_ResultsMatchCases ==
  (lastResp # <<>> /\ lastResp[1].ok) =>
    /\ Len(lastResp[1].results) = Len(lastReq[1].cases)
    /\ \A i \in 1..Len(lastResp[1].results) :
         lastResp[1].results[i].name = lastReq[1].cases[i].name

\* C2's case: a Success for three cases of which one passed, one
\* mismatched and one threw
C2_Witness ==
  /\ lastResp # <<>>
  /\ lastResp[1].ok
  /\ Len(lastReq[1].cases) = 3
  /\ \E i, j, n \in 1..3 :
       /\ lastResp[1].results[i].pass
       /\ lastResp[1].results[j].error = Str("Output mismatch.")
       /\ lastResp[1].results[n].error = Str("boom")

\* C3: when the entry point throws on case K, runTests records for K a
\* result with pass = false and the thrown message (or its string
\* conversion) as error, and every later case still gets the result it
\* would have got otherwise.
C3_ThrowStaysLocal ==
  (lastReq # <<>> /\ TypeOf(lastSolution) = "function") =>
    LET tcs == lastReq[1].cases
        Out(i) == Invoke(lastSolution, tcs[i].args)
    IN \A K \in 1..Len(tcs) :
         Out(K).throws # NoThrow =>
           /\ Len(lastResults) = Len(tcs)
           /\ ~lastResults[K].pass
           /\ lastResults[K].error = Str(Out(K).throws.text)
           /\ \A j \in (K + 1)..Len(tcs) :
                Out(j).throws = NoThrow =>
                  lastResults[j] = CompareResult(tcs[j], Out(j).ret)

\* C4: the response is a Failure if and only if evaluating the program text
\* throws or the resolved entry point is not callable.
C4_FailureIffLoadFails ==
  lastResp # <<>> =>
    (~lastResp[1].ok <=>
       (lastReq[1].code.throws # NoThrow \/ TypeOf(lastSolution) # "function"))

FieldsFit(r, out) ==
  /\ r.pass => (r.error = Absent /\ r.expected = Absent /\ r.actual = Absent)
  /\ out.throws # NoThrow =>
       (~r.pass /\ r.error # Absent /\ r.expected = Absent /\ r.actual = Absent)
  /\ (out.throws = NoThrow /\ ~r.pass) =>
       (r.error = Str("Output mismatch.") /\ r.expected # Absent /\ r.actual # Absent)

\* C9: in every TestResult, error, expected and actual are present only when
\* pass is false: a passing result has none of them, a mismatch result has
\* error "Output mismatch." with expected and actual, a throwing-invocation
\* result has error only.
C9_ResultFields ==
  /\ \A i \in 1..Len(results) :
       FieldsFit(results[i], Invoke(solution, cur.cases[i].args))
  /\ lastResp # <<>> =>
       \A i \in 1..Len(lastResp[1].results) :
         FieldsFit(lastResp[1].results[i],
                   Invoke(lastSolution, lastReq[1].cases[i].args))

\* C9's case: a response holding a passing, a mismatch and a throwing result
C9_Witness ==
  /\ lastResp # <<>>
  /\ \E i, j, n \in 1..Len(lastResp[1].results) :
       /\ lastResp[1].results[i].pass
       /\ lastResp[1].results[j].actual # Absent
       /\ ~lastResp[1].results[n].pass
       /\ lastResp[1].results[n].actual = Absent

\* the program text gives the name `solution` a value
Declares(p) == p.local \notin {Unbound, Undefined} \/ p.globalSet # Unbound

\* what the handler posts when it catches err with the buffer buf: <<the
\* Failure>>, or <<>> when converting err throws
Caught(err, buf) ==
  IF ErrorText(err).threw = NoThrow
    THEN <<Failure(ErrorText(err).text, buf)>> ELSE <<>>

\* what the handler posts once runTests has reached case i of tcs with the
\* results res and the buffer buf
RECURSIVE FreshTests(_, _, _, _, _)
FreshTests(fn, tcs, i, res, buf) ==
  IF i > Len(tcs) THEN <<Success(res, buf)>>
  ELSE LET out == Invoke(fn, tcs[i].args)
           txt == ErrorText(out.throws)
           buf2 == LogAll(buf, out.calls)
       IN IF out.throws = NoThrow
            THEN FreshTests(fn, tcs, i + 1,
                            Append(res, CompareResult(tcs[i], out.ret)), buf2)
          ELSE IF txt.threw = NoThrow
            THEN FreshTests(fn, tcs, i + 1,
                            Append(res, ThrowResult(tcs[i], txt.text)), buf2)
          ELSE Caught(txt.threw, buf2)

\* the response to req of a runner that has handled no request before:
\* <<the response>>, or <<>> when it posts none
FreshResponse(req) ==
  LET run == wrapper(req.code, Unbound)
      buf == LogAll(<<>>, run.calls)
  IN IF run.thrown # NoThrow THEN Caught(run.thrown, buf)
     ELSE IF TypeOf(run.value) # "function"
       THEN Caught(ErrorObj("solution must be a function."), buf)
     ELSE FreshTests(run.value, req.cases, 1, <<>>, buf)

\* C11: no cross-run state is retained inside the runner: the response to a
\* request (ok flag, results, error, logs), or its absence, is the one a
\* runner that has handled no earlier request gives to the same request.
C11_NoCrossRunState ==
  lastReq # <<>> => lastResp = FreshResponse(lastReq[1])

\* C15: evaluation and every invocation terminating, every dispatched run
\* request is eventually answered: once handleRun has posted a request, the
\* runner eventually posts a response and the page's status eventually
\* leaves "running".
C15_EventuallyAnswered ==
  \A n \in 1..MaxRequests :
    (nreq = n /\ status = "running") ~> (posted >= n /\ status # "running")

\* C10: the entry point the runner invokes is the value bound to `solution`
\* when the program text declares it, and otherwise what the program text
\* left in module.exports.
C10_EntryPoint ==
  LET p == IF lastReq # <<>> THEN lastReq[1].code ELSE cur.code
  IN \A i \in 1..Len(invoked) :
       invoked[i] = IF Declares(p)
                      THEN (IF p.local # Unbound THEN p.local ELSE p.globalSet)
                      ELSE p.exports

----------------------------------------------------------------------------
(* Claims about the page and the worker together, stated for SpecAmbient.  *)

\* C12: while the program text is evaluated and its entry point invoked, the
\* only externally supplied things it reaches are the three injected
\* bindings: module, exports and the capturing console.
C12_OnlyInjectedBindings == reached \subseteq Injected

\* C14: when the page handles a response, the displayed results, logs and
\* error are replaced entirely by that response's content: ok:true gives its
\* results and logs with the error cleared, ok:false gives empty results,
\* its logs and its error; nothing of an earlier response stays.
C14_DisplayIsLatestResponse ==
  handled # <<>> =>
    /\ hostLogs = handled[1].logs
    /\ handled[1].ok => (hostResults = handled[1].results /\ hostError = <<>>)
    /\ ~handled[1].ok => (hostResults = <<>> /\ hostError = <<handled[1].error>>)

\* C14's case: the page has handled two responses to one request in a row,
\* first a Success with a result and a log line, then a Failure without
C14_Witness ==
  /\ nreq = 1
  /\ code.refs = <<"postMessage">>
  /\ posted = 1
  /\ outbox = <<>>
  /\ handled # <<>>
  /\ ~handled[1].ok
  /\ hostResults = <<>>
  /\ hostLogs = <<>>

\* the helpers the README names
Helpers == {"test", "assert"}

\* C16: test() and assert() are among the bindings available to the program
\* text when the runner evaluates it: a text that uses one of them resolves
\* it.
C16_HelpersAvailable ==
  lastReq # <<>> =>
    \A i \in 1..Len(lastReq[1].code.refs) :
      lastReq[1].code.refs[i] \in Helpers => lastReq[1].code.refs[i] \in reached

\* C17: the log buffer is allocated fresh per request: the logs of the
\* response to a request are the buffer of that request, and no line in it
\* was emitted while an earlier request was being handled.
C17_FreshLogBuffer ==
  /\ \A i \in 1..Len(logsFrom) : logsFrom[i] = received
  /\ lastResp # <<>> => lastResp[1].logs = logs

\* C17's case: the responses of the runner to a first and to a second request
\* for the same text, which makes one console call, are both in the channel
\* (the message the text posted itself made the page ready for the second
\* Run), and each carries one line
C17_Witness ==
  \E i, j \in 1..Len(outbox) :
    /\ outboxFor[i] = 1
    /\ outboxFor[j] = 2
    /\ outbox[i].logs = <<"hi 1">>
    /\ outbox[j].logs = <<"hi 1">>

\* C18: at most one run request is outstanding at any time, and a response
\* the page handles answers the most recently dispatched request, the page
\* being "running" for it and for no generation: no stale response can
\* overwrite a newer one.
C18_OneOutstanding ==
  /\ Len(inbox) + (IF wpc = "idle" THEN 0 ELSE 1) <= 1
  /\ outbox # <<>> =>
       (status = "running" /\ gen = 0 /\ Len(outbox) = 1 /\ outboxFor[1] = nreq)

\* C19: in every state of the page, status is "error" if and only if the
\* error is not null, and whenever the error is not null or status is
\* "running" the displayed results are empty.
C19_StatusAndError ==
  /\ status = "error" <=> hostError # <<>>
  /\ (hostError # <<>> \/ status = "running") => hostResults = <<>>

----------------------------------------------------------------------------
(* Claims about the page alone, stated for SpecHost.                       *)

\* the argument vector the claim describes for an args text
VectorFits(text, args) ==
  LET parsed == JsonParse(Trim(text))
  IN IF Trim(text) = "" THEN args = <<>>
     ELSE IF parsed = Absent THEN args = <<Str(Trim(text))>>
     ELSE IF IsArray(parsed) THEN args = parsed.e
     ELSE args = <<parsed>>

\* the one value the claim describes for an expected text
ExpectedFits(text, expected) ==
  LET parsed == JsonParse(Trim(text))
  IN IF Trim(text) = "" THEN expected = Undefined
     ELSE IF parsed = Absent THEN expected = Str(Trim(text))
     ELSE expected = parsed

\* C13: for every raw case, handleRun sends as argument vector the parsed
\* args when they are an array, the empty vector when the text is blank,
\* and otherwise the one-element vector of the parsed value (the trimmed
\* text when JSON parsing fails); the expected text is parsed the same way
\* but sent as one value, never spread.
C13_ArgumentVectors ==
  [][Len(inbox') > Len(inbox) =>
       LET req == inbox'[Len(inbox')]
       IN /\ Len(req.cases) = Len(cases)
          /\ \A i \in 1..Len(cases) :
               /\ VectorFits(cases[i].args, req.cases[i].args)
               /\ ExpectedFits(cases[i].expected, req.cases[i].expected)]_vars

\* C13's case: a request built from an array text (with an array as expected
\* value), a text that does not parse and a blank text
C13_Witness ==
  /\ inbox # <<>>
  /\ \E i, j, n \in 1..Len(inbox[1].cases) :
       /\ inbox[1].cases[i].args = <<Num("1"), Num("1")>>
       /\ inbox[1].cases[i].expected = Arr(<<Num("1")>>)
       /\ inbox[1].cases[j].args = <<Str("x")>>
       /\ inbox[1].cases[n].args = <<>>

\* every field the item has is the same in the other item
KeptFields(old, new) ==
  /\ old.prompt # <<>> => new.prompt = old.prompt
  /\ old.code # <<>> => new.code = old.code
  /\ old.cases # <<>> => new.cases = old.cases
  /\ old.apiKey # <<>> => new.apiKey = old.apiKey

IdsOf(list) == [i \in 1..Len(list) |-> list[i].id]
Distinct(list) ==
  \A i, j \in 1..Len(list) : i # j => list[i].id # list[j].id

\* C21: case ids stay unique and stable. From a list of pairwise distinct
\* ids, every step of the page (addCase, removeCase, updateCase, hydration
\* or a storage event loading a list of pairwise distinct ids) leaves the
\* ids pairwise distinct; addCase issues an id the list does not hold; and
\* updateCase changes no id.
C21_UniqueStableIds ==
  [][Distinct(cases) =>
       /\ Distinct(cases')
       /\ AddCase => \A i \in 1..Len(cases) : cases[i].id # cases'[Len(cases')].id
       /\ UpdateCase => IdsOf(cases') = IdsOf(cases)]_vars

----------------------------------------------------------------------------
(* Claims about deepEqual, stated for SpecEq.                              *)

KeySet(v) == {Keys(v)[i] : i \in 1..Len(Keys(v))}

\* C6: for two mappings, deepEqual(a, b) is true exactly when a and b have
\* the same set of own keys and deepEqual holds on the two values of every
\* key.
C6_MappingEquality ==
  (eqPc # "input" /\ IsMapping(a) /\ IsMapping(b)) =>
    (fwd <=> (/\ KeySet(a) = KeySet(b)
              /\ \A key \in KeySet(a) : deepEqual(Get(a, key), Get(b, key))))

\* C7: deepEqual is symmetric on JSON-derived values:
\* deepEqual(a, b) = deepEqual(b, a).
C7_Symmetric ==
  (eqPc = "swapped" /\ IsJson(a) /\ IsJson(b)) => (fwd <=> rev)

\* C8: deepEqual is false whenever exactly one argument is an array and the
\* other is a mapping, whatever they hold.
C8_ArrayVsMapping ==
  (eqPc # "input" /\ ((IsArray(a) /\ IsMapping(b)) \/ (IsMapping(a) /\ IsArray(b))))
    => ~fwd

\* C8's case: the array [1] has been compared with the mapping {"0": 1}
C8_Witness ==
  /\ eqPc # "input"
  /\ a = Arr(<<Num("1")>>)
  /\ b = Obj(<<"0">>, <<Num("1")>>)

====
